---- MODULE Spec2Model ----
(***************************************************************************)
(* Model of the registration service's session state machine:              *)
(*   src/src/session.rs   SessionData, SessionStore                        *)
(*   src/src/grpc/mod.rs  RegistrationServer request handlers              *)
(* The handlers run as concurrent tasks.  Each one touches the shared      *)
(* session map only through cleanup_expired, get_session (which returns a  *)
(* clone) and update_session (which stores a whole SessionData), so a      *)
(* handler is modelled as a process whose steps are those lock-protected   *)
(* calls and the local computation in between.  Time is the wall clock in  *)
(* whole seconds.                                                          *)
(***************************************************************************)
EXTENDS Integers, FiniteSets, Sequences, TLC

\* ---------------------------------------------------------------- bounds
MaxOverlaps == 1     \* requests that arrive while another one is being served
MaxRepeats  == 2     \* repetitions of a save_registration that are counted
MaxLimiterNow == 4   \* seconds of the clock followed for the rate limiter

\* ------------------------------------------------------ program constants
SmsDelay         == 60     \* session.rs:47
VoiceDelay       == 300    \* session.rs:59
MaxCheckAttempts == 3      \* session.rs:70
LockoutSeconds   == 300    \* session.rs:74

\* The server is built with_session_timeout(SessionTimeout).
SessionTimeout == 2 * SmsDelay

\* The clock is observed every TickStep seconds.
TickStep == SmsDelay

\* Option::None for Option<SystemTime> and Option<String>
None == -1

SessionIds == {1}                  \* ids Uuid::new_v4 returns, in order
Handlers   == {1, 2}               \* handler tasks that can run at once
Codes      == {1, 2}               \* values of generate_verification_code
Transports == {0, 1, 2}            \* SMS = 0, VOICE = 1, 2 = any other value
Phones     == {2025550123}         \* e164 values the directory returns

VARIABLES
  now,        \* SystemTime::now()
  sessions,   \* SessionStore.sessions : id -> SessionData
  next_id,    \* the id the next Uuid::new_v4 returns (ids never repeat)
  overlaps,   \* requests accepted while another one was being served
  codes_seen, \* distinct values generate_verification_code has returned
  pc,         \* position of each handler task
  req,        \* the request each handler is serving
  local,      \* the handler's `session` local (clone of the stored one)
  resp,       \* the response the handler returns
  hist,       \* per session id: what has happened to it (observation only)
  compared,   \* per session id: code comparisons made (observation only,
              \* counted where one request is served at a time)
  twilio_requests, \* deliveries TwilioClient::send_verification_code was asked for
  registrations,   \* the DynamoDB table: phone_number -> item
  last_save,       \* the last save_registration and its repetitions (observation only)
  last_create,     \* the last create_session exchange: request, directory, response
  pool,            \* LdapClient.pool: the bind state of each pooled connection
  last_validate,   \* the last validate_credentials exchange
  limiter_config,  \* RateLimiter.config
  attempts,        \* RateLimiter.attempts : key -> RateLimitEntry
  limiter_hist,    \* per key: the calls admitted in the current window (observation only)
  last_check,      \* the last check_rate_limit: key and result (observation only)
  info_log,        \* the log records emitted at INFO or above that derive from a secret
  last_call,       \* the last call of a SessionStore method made directly (observation only)
  last_filter,     \* the last username given to find_user and the filter value built from it
  session_timeout, \* RegistrationServer.session_timeout, in seconds
  task,            \* per tokio task: the request it serves and where it is among the lock operations
  held             \* who holds SessionStore.sessions (RwLock) and RateLimiter.attempts (Mutex)

vars == <<now, sessions, next_id, overlaps, codes_seen, pc, req, local, resp, hist,
          compared, twilio_requests, registrations, last_save, last_create,
          pool, last_validate, limiter_config, attempts, limiter_hist, last_check,
          info_log, last_call, last_filter, session_timeout, task, held>>

\* The state of the session handlers, and the state of the other components.
session_vars == <<now, sessions, next_id, overlaps, codes_seen, pc, req, local, resp, hist>>
other_vars   == <<compared, twilio_requests, registrations, last_save, last_create,
                  pool, last_validate, limiter_config, attempts, limiter_hist, last_check,
                  last_call, last_filter, session_timeout, task, held>>

\* The variables of each component outside the session handlers.
store_vars == <<registrations, last_save>>
ldap_vars  == <<pool, last_validate>>
limiter_vars == <<limiter_config, attempts, limiter_hist, last_check>>

\* What a step that writes no log record leaves alone.
quiet_vars == <<other_vars, info_log>>

\* ------------------------------------------------------------- SessionData

\* Metadata created with may_check_code already set
NewMetadata_checkable(id, e164, timeout) ==
  [ session_id              |-> id,
    verified                |-> FALSE,
    e164                    |-> e164,
    may_request_sms         |-> TRUE,
    next_sms_seconds        |-> 0,
    may_request_voice_call  |-> TRUE,
    next_voice_call_seconds |-> 0,
    may_check_code          |-> TRUE,
    next_code_check_seconds |-> 0,
    expiration_seconds      |-> timeout ]

\* RegistrationSessionMetadata as built by SessionStore::create_session
NewMetadata(id, e164, timeout) ==
  [ session_id              |-> id,
    verified                |-> FALSE,
    e164                    |-> e164,
    may_request_sms         |-> TRUE,
    next_sms_seconds        |-> 0,
    may_request_voice_call  |-> TRUE,
    next_voice_call_seconds |-> 0,
    may_check_code          |-> FALSE,
    next_code_check_seconds |-> 0,
    expiration_seconds      |-> timeout ]

\* SessionData::new
NewSessionData(metadata, t) ==
  [ metadata              |-> metadata,
    created_at            |-> t,
    last_sms_at           |-> None,
    last_voice_call_at    |-> None,
    verification_attempts |-> 0,
    verification_code     |-> None ]

\* is_expired with the boundary second counted as still alive
is_expired_late(s, t) ==
  IF t >= s.created_at
    THEN (t - s.created_at) > s.metadata.expiration_seconds
    ELSE TRUE

\* SessionData::is_expired: duration_since fails when created_at is later
\* than the clock, and unwrap_or(true) then reports the session as expired.
is_expired(s, t) ==
  IF t >= s.created_at
    THEN (t - s.created_at) >= s.metadata.expiration_seconds
    ELSE TRUE

\* SessionData::update_timing, SMS part
UpdateSmsTiming(s, t) ==
  IF s.last_sms_at # None /\ t >= s.last_sms_at
    THEN LET elapsed == t - s.last_sms_at
             may     == elapsed >= SmsDelay
         IN [s EXCEPT !.metadata.may_request_sms  = may,
                      !.metadata.next_sms_seconds = IF may THEN 0 ELSE SmsDelay - elapsed]
    ELSE s

\* SessionData::update_timing, voice part
UpdateVoiceTiming(s, t) ==
  IF s.last_voice_call_at # None /\ t >= s.last_voice_call_at
    THEN LET elapsed == t - s.last_voice_call_at
             may     == elapsed >= VoiceDelay
         IN [s EXCEPT !.metadata.may_request_voice_call  = may,
                      !.metadata.next_voice_call_seconds = IF may THEN 0 ELSE VoiceDelay - elapsed]
    ELSE s

\* the code check part with one attempt too many allowed
UpdateCheckTiming_off_by_one(s) ==
  IF s.verification_attempts > 0
    THEN LET may == s.verification_attempts <= MaxCheckAttempts
         IN [s EXCEPT !.metadata.may_check_code          = may,
                      !.metadata.next_code_check_seconds = IF may THEN 0 ELSE LockoutSeconds]
    ELSE s

\* SessionData::update_timing, code check part
UpdateCheckTiming(s) ==
  IF s.verification_attempts > 0
    THEN LET may == s.verification_attempts < MaxCheckAttempts
         IN [s EXCEPT !.metadata.may_check_code          = may,
                      !.metadata.next_code_check_seconds = IF may THEN 0 ELSE LockoutSeconds]
    ELSE s

\* an update that turns expiration_seconds into the time the session has left
update_timing_countdown(s, t) ==
  LET u == UpdateCheckTiming(UpdateVoiceTiming(UpdateSmsTiming(s, t), t))
      elapsed == t - s.created_at
  IN [u EXCEPT !.metadata.expiration_seconds = IF elapsed < @ THEN @ - elapsed ELSE 0]

\* SessionData::update_timing
update_timing(s, t) == UpdateCheckTiming(UpdateVoiceTiming(UpdateSmsTiming(s, t), t))

\* ------------------------------------------------------------ SessionStore

\* a sweep that keeps the sessions created in the future of the clock
cleanup_expired_keep_future(store, t) ==
  [id \in {i \in DOMAIN store :
             \/ t < store[i].created_at
             \/ t - store[i].created_at < store[i].metadata.expiration_seconds}
     |-> store[id]]

\* a sweep that also drops the sessions whose attempts are used up
cleanup_expired_locked_out(store, t) ==
  [id \in {i \in DOMAIN store : /\ ~is_expired(store[i], t)
                                 /\ store[i].verification_attempts < MaxCheckAttempts}
     |-> store[id]]

\* SessionStore::cleanup_expired: retain(|_, s| !s.is_expired())
cleanup_expired(store, t) ==
  [id \in {i \in DOMAIN store : ~is_expired(store[i], t)} |-> store[id]]

\* an update that inserts the value when the id is not in the map
update_session_upsert(store, id, data) ==
  [i \in DOMAIN store \cup {id} |-> IF i = id THEN data ELSE store[i]]

\* SessionStore::update_session: replaces the stored value only when the id
\* is present; the handlers ignore the returned bool.
update_session(store, id, data) ==
  IF id \in DOMAIN store THEN [store EXCEPT ![id] = data] ELSE store

\* --------------------------------------------------------------- responses

NoMetadata == NewMetadata(0, 0, 0)

NoResp == [tag |-> "none", error_type |-> "", may_retry |-> FALSE,
           retry_after_seconds |-> 0, metadata |-> NoMetadata]

\* a response that drops the metadata it was given
MetadataResp_blank(m) == [NoResp EXCEPT !.tag = "metadata"]

\* Response::SessionMetadata(m)
MetadataResp(m) == [NoResp EXCEPT !.tag = "metadata", !.metadata = m]

\* Response::Error(XxxError { error_type, may_retry, retry_after_seconds })
ErrorResp(type, retry, after) ==
  [NoResp EXCEPT !.tag = "error", !.error_type = type,
                 !.may_retry = retry, !.retry_after_seconds = after]

\* Err(Status::not_found(msg)) of get_session_metadata
StatusResp(msg) == [NoResp EXCEPT !.tag = "status", !.error_type = msg]

\* A request, with two facts about the moment it arrived:
\*   after_expiry: the TTL of the session it names had already elapsed
\*   after_wrong:  MaxCheckAttempts checks on that session had already been
\*                 answered "wrong code"
NoReq == [kind |-> "none", session_id |-> 0, transport |-> 0,
          verification_code |-> 0, after_expiry |-> FALSE, after_wrong |-> FALSE]

NoLocal == NewSessionData(NoMetadata, 0)

\* What has been observed of one session id
NoHist ==
  [ created_at   |-> None,    \* instant of creation (kept after eviction)
    e164         |-> None,    \* phone number the session was created for
    last_issued  |-> None,    \* code of the most recent successful send
    matched      |-> FALSE,   \* a check read the session while it submitted its stored code
    wrong_checks |-> 0,       \* checks answered "wrong code" (counted up to MaxCheckAttempts)
    sms_last     |-> None,    \* send instant of the most recent successful
    voice_last   |-> None ]   \*   send, per channel

\* The TTL of session `id` has elapsed at instant t.
TtlElapsed(id, t) ==
  /\ hist[id].created_at # None
  /\ t - hist[id].created_at >= session_timeout

\* ------------------------------------------- SessionStore called directly

\* Ids Uuid::new_v4 returns to a caller of the store, in order
RegistryIds == {1, 2}

\* The wall clock read by SystemTime::now(), in steps of TickStep
MaxRegistryTicks == 3

\* One call of a SessionStore method: the method, the id it was given, what
\* it returned (Some / true), the map before the call and the clock.
StoreCall(op, id, ok, before, at) ==
  [op |-> op, id |-> id, ok |-> ok, before |-> before, at |-> at]

NoCall == StoreCall("none", 0, FALSE, <<>>, 0)

\* SessionStore::get_session: the clone of the stored value, or None
get_session(store, id) ==
  IF id \in DOMAIN store THEN [some |-> TRUE, session |-> store[id]]
                         ELSE [some |-> FALSE, session |-> NoLocal]

\* ------------------------------------------------------------------ locks

\* The tokio tasks that can run at once
Tasks == {1, 2, 3}

\* What a task can be serving: the four handlers, and a call of
\* RateLimiter::check_rate_limit or reset_rate_limit
TaskKinds == {"create", "get", "send", "check", "limit"}

IdleTask == [kind |-> "none", at |-> "idle"]

\* The RwLock of the session map (one writer, or any number of readers) and
\* the Mutex of the rate limiter; 0 is no holder.
NoLocks == [writer |-> 0, readers |-> {}, mutex |-> 0]

\* a guard that is kept when the statement that took it ends
Drop_kept(locks, t) == locks

\* The guards of task t are dropped: each SessionStore method takes the
\* lock in a temporary that dies with the statement, and check_rate_limit
\* and reset_rate_limit hold their guard to the end of the function.
Drop(locks, t) ==
  [ writer  |-> IF locks.writer = t THEN 0 ELSE locks.writer,
    readers |-> locks.readers \ {t},
    mutex   |-> IF locks.mutex = t THEN 0 ELSE locks.mutex ]

\* -------------------------------------------------------------------- Init

\* ------------------------------------------------------- directory (Entra)

\* Characters of the phone attribute the directory returns.
DigitChars == <<"0", "1", "2", "3", "4", "5", "6", "7", "8", "9">>

IsDigit(c) == \E i \in 1..10 : DigitChars[i] = c

DigitValue(c) == (CHOOSE i \in 1..10 : DigitChars[i] = c) - 1

RECURSIVE ParseDigits(_, _)
ParseDigits(str, acc) ==
  IF str = <<>> THEN acc
  ELSE IF ~IsDigit(Head(str)) THEN None
  ELSE ParseDigits(Tail(str), acc * 10 + DigitValue(Head(str)))

\* str::parse::<u64>: an optional leading "+", then one or more ASCII digits;
\* anything else is an error (None).  The strings used here are far shorter
\* than the 20 digits at which a u64 overflows.
ParseU64(str) ==
  LET digits == IF str # <<>> /\ Head(str) = "+" THEN Tail(str) ELSE str
  IN IF digits = <<>> THEN None ELSE ParseDigits(digits, 0)

\* Phone attributes the directory holds: the number of Phones, a number with
\* the E.164 plus sign, the same number without it, a formatted number and
\* an empty string.
DirectoryPhones ==
  { <<"2", "0", "2", "5", "5", "5", "0", "1", "2", "3">>,
    <<"+", "1", "2">>,
    <<"1", "2">>,
    <<"1", "-", "2">>,
    <<>> }

\* HTTP status of an answer; 0 stands for a request that got no response.
TokenStatuses == {0, 200, 400, 401, 403, 429, 500}
UserStatuses  == {0, 200, 403, 404, 429, 503}

\* What came with the status: a well-formed JSON document, something else,
\* or a body that could not be read to its end.
Bodies == {"json", "garbage", "broken"}

IsClientError(status) == status \in 400..499
IsServerError(status) == status \in 500..599

\* The directory's side of one authenticate_user call.  Fields the client
\* never reads (the user request after a failed token request, the phone
\* attribute of a failed user request) are held at a fixed value.
NoAttribute == [present |-> FALSE, value |-> <<>>]

Attributes == {NoAttribute} \cup {[present |-> TRUE, value |-> v] : v \in DirectoryPhones}

TokenGranted(d) == d.token_status = 200 /\ d.token_body = "json"
UserFound(d)    == d.user_status = 200 /\ d.user_body = "json"

DirectoryAnswer(token_status, token_body, user_status, user_body, attribute) ==
  [ token_status |-> token_status, token_body |-> token_body,
    user_status  |-> user_status,  user_body  |-> user_body,
    attribute    |-> attribute ]

BodiesOf(status) == IF status = 0 THEN {"broken"} ELSE Bodies

\* The token request fails; the token is granted and the user request
\* fails; both succeed and the user has or lacks the phone attribute.
TokenFailures ==
  { d \in UNION {{DirectoryAnswer(t, b, 0, "broken", NoAttribute) : b \in BodiesOf(t)} :
                   t \in TokenStatuses} : ~TokenGranted(d) }

UserFailures ==
  { d \in UNION {{DirectoryAnswer(200, "json", u, b, NoAttribute) : b \in BodiesOf(u)} :
                   u \in UserStatuses} : ~UserFound(d) }

UsersFound == {DirectoryAnswer(200, "json", 200, "json", a) : a \in Attributes}

DirectoryAnswers == TokenFailures \cup UserFailures \cup UsersFound

NoAnswer == [ token_status |-> 0, token_body |-> "broken",
              user_status  |-> 0, user_body  |-> "broken",
              attribute    |-> NoAttribute ]

AuthOk(phone, requests) ==
  [ok |-> TRUE, error |-> "", phone_number |-> phone, requests |-> requests]

AuthErr(error, requests) ==
  [ok |-> FALSE, error |-> error, phone_number |-> <<>>, requests |-> requests]

\* EntraIdClient::get_access_token: the error it returns, "" for a token
get_access_token(d) ==
  IF d.token_status = 0 THEN "Http"
  ELSE IF IsClientError(d.token_status)
    THEN IF d.token_body = "broken" THEN "Http"
         ELSE IF d.token_status \in {401, 403} THEN "AuthenticationFailed"
         ELSE IF d.token_status = 429 THEN "RateLimitExceeded"
         ELSE "TokenError"
  ELSE IF IsServerError(d.token_status)
    THEN IF d.token_body = "broken" THEN "Http" ELSE "GraphApi"
  ELSE IF d.token_body # "json" THEN "TokenError"
  ELSE ""

\* EntraIdClient::authenticate_user
authenticate_user(d) ==
  IF get_access_token(d) # "" THEN AuthErr(get_access_token(d), 1)
  ELSE IF d.user_status = 0 THEN AuthErr("Http", 2)
  ELSE IF IsClientError(d.user_status)
    THEN IF d.user_body = "broken" THEN AuthErr("Http", 2)
         ELSE IF d.user_status = 404 THEN AuthErr("UserNotFound", 2)
         ELSE IF d.user_status = 429 THEN AuthErr("RateLimitExceeded", 2)
         ELSE AuthErr("GraphApi", 2)
  ELSE IF IsServerError(d.user_status)
    THEN IF d.user_body = "broken" THEN AuthErr("Http", 2) ELSE AuthErr("GraphApi", 2)
  ELSE IF d.user_body # "json" THEN AuthErr("GraphApi", 2)
  ELSE IF ~d.attribute.present THEN AuthErr("PhoneNumberNotFound", 2)
  ELSE AuthOk(d.attribute.value, 2)

\* entra_error_to_registration_error with an arm of its own for UserNotFound
entra_error_to_registration_error_leaky(err) ==
  IF err = "RateLimitExceeded" THEN ErrorResp("RATE_LIMITED", TRUE, 60)
  ELSE IF err = "PhoneNumberNotFound" THEN ErrorResp("ILLEGAL_PHONE_NUMBER", FALSE, 0)
  ELSE IF err = "UserNotFound" THEN ErrorResp("ILLEGAL_PHONE_NUMBER", FALSE, 0)
  ELSE ErrorResp("UNSPECIFIED", FALSE, 0)

\* entra_error_to_registration_error
entra_error_to_registration_error(err) ==
  IF err = "RateLimitExceeded" THEN ErrorResp("RATE_LIMITED", TRUE, 60)
  ELSE IF err = "PhoneNumberNotFound" THEN ErrorResp("ILLEGAL_PHONE_NUMBER", FALSE, 0)
  ELSE ErrorResp("UNSPECIFIED", FALSE, 0)

\* The username and password entries of the request metadata: a text value,
\* no entry, or an entry that is not visible ASCII.
Credentials == {"text", "missing", "opaque"}

CreateRequests == [username : Credentials, password : Credentials]

\* What is remembered of a create_session exchange: the request, the
\* directory's side, the HTTP requests made to the directory, the calls made
\* to RateLimiter::check_rate_limit, the id of the session created (0 for
\* none) and the response.
CreateExchange(rq, d, requests, id, r) ==
  [ request |-> rq, directory |-> d, directory_requests |-> requests,
    limiter_calls |-> 0, session_id |-> id, response |-> r ]

NoCreate ==
  CreateExchange([username |-> "missing", password |-> "missing"], NoAnswer, 0, 0, NoResp)

\* ------------------------------------------------------------ directory (LDAP)

\* user_id values of ValidateCredentialsRequest, split at '@'
UserIds == { <<"alice">>, <<"alice", "example.com">>, <<"bob">>, <<"carol">>, <<"dave">> }

Passwords == {"pw-alice", "pw-other"}

\* username.split('@').next(): the part before the first '@'
CleanUsername(user_id) == Head(user_id)

\* The entries of the directory: alice has a phone number, bob has no phone
\* attribute, carol's is blank; nobody else has an entry.
LdapEntry(phone, text) == [password |-> "pw-alice", has_phone |-> phone, phone_number |-> text]

LdapEntries ==
  [ uid \in {"alice", "bob", "carol"} |->
      IF uid = "alice" THEN LdapEntry(TRUE, "+12025550123")
      ELSE IF uid = "bob" THEN LdapEntry(FALSE, "")
      ELSE LdapEntry(TRUE, " ") ]

\* str::trim of the phone values above
Trim(text) == IF text = " " THEN "" ELSE text

\* How the directory serves one authenticate_user: whether a new connection
\* can be opened, and for the search, the bind of the service account and
\* the bind of the user whether the operation is answered with success
\* ("ok"), answered with a non-zero result code ("rc") or not answered
\* ("io").  The bind of the user is answered with invalidCredentials when
\* the password is not the entry's.
LdapFaults ==
  [ connect : BOOLEAN, search : {"ok", "rc", "io"},
    admin_bind : {"ok", "rc", "io"}, user_bind : {"ok", "rc", "io"} ]

LdapOk(phone, p)  == [ok |-> TRUE, error |-> "", phone_number |-> phone, pool |-> p]
LdapErr(error, p) == [ok |-> FALSE, error |-> error, phone_number |-> "", pool |-> p]

\* LdapClient::find_user on an answered search: the error, "" for none
find_user(user_id) ==
  LET uid == CleanUsername(user_id)
  IN IF uid \notin DOMAIN LdapEntries THEN "UserNotFound"
     ELSE IF ~LdapEntries[uid].has_phone THEN "PhoneNumberNotFound"
     ELSE IF Trim(LdapEntries[uid].phone_number) = "" THEN "PhoneNumberEmpty"
     ELSE ""

\* LdapClient::authenticate_user: the result and the pool it leaves.  A
\* connection taken from the pool goes back only where the code returns it;
\* on every error path it is dropped.
ldap_authenticate_user(p, user_id, password, f) ==
  LET rest == IF p = <<>> THEN <<>> ELSE SubSeq(p, 1, Len(p) - 1)
      uid  == CleanUsername(user_id)
  IN IF p = <<>> /\ ~f.connect THEN LdapErr("Ldap", rest)
     ELSE IF f.search = "io" THEN LdapErr("ServerError", rest)
     ELSE IF f.search = "rc" THEN LdapErr("Ldap", rest)
     ELSE IF find_user(user_id) # "" THEN LdapErr(find_user(user_id), rest)
     ELSE IF f.admin_bind = "io" THEN LdapErr("AuthenticationFailed", rest)
     ELSE IF f.admin_bind = "rc" THEN LdapErr("Ldap", rest)
     ELSE IF f.user_bind = "io" THEN LdapErr("AuthenticationFailed", rest)
     ELSE IF f.user_bind = "rc" \/ password # LdapEntries[uid].password
       THEN LdapErr("Ldap", rest)
     ELSE LdapOk(LdapEntries[uid].phone_number, Append(rest, uid))

\* ValidateCredentialsResponse
PhoneNumberResult(phone) == [tag |-> "phone_number", phone_number |-> phone, error_type |-> 0]
ValidateError(type)      == [tag |-> "error", phone_number |-> "", error_type |-> type]

\* The match of validate_credentials on the error of authenticate_user
ValidateErrorType(error) ==
  IF error = "UserNotFound" THEN 1
  ELSE IF error = "AuthenticationFailed" THEN 2
  ELSE 3

\* What is remembered of a validate_credentials exchange: the request, the
\* directory's side, whether a connection was at hand, the error of
\* authenticate_user ("" for none) and the response.
ValidateExchange(user_id, password, f, connected, error, r) ==
  [ user_id |-> user_id, password |-> password, faults |-> f,
    connected |-> connected, error |-> error, response |-> r ]

NoValidate ==
  ValidateExchange(<<"dave">>, "pw-other",
                   [connect |-> TRUE, search |-> "ok", admin_bind |-> "ok", user_bind |-> "ok"],
                   TRUE, "", [tag |-> "none", phone_number |-> "", error_type |-> 0])

\* ------------------------------------------------- the LDAP search filter

\* Characters of a username: a letter, two characters that occur in escapes,
\* the characters escape_ldap_value replaces ("NUL" is the character 0), and
\* the separator of an e-mail address.
UsernameChars == {"a", "5", "c", "\\", "*", "(", ")", "NUL", "/", "@"}

MaxUsernameLen == 3

\* username.split('@').next(): the characters before the first '@', the
\* whole string when it has none
RECURSIVE SplitFirst(_)
SplitFirst(text) ==
  IF text = <<>> \/ Head(text) = "@" THEN <<>>
  ELSE <<Head(text)>> \o SplitFirst(Tail(text))

\* str::replace(from, to) for a one-character pattern
RECURSIVE Replace(_, _, _)
Replace(text, from, to) ==
  IF text = <<>> THEN <<>>
  ELSE (IF Head(text) = from THEN to ELSE <<Head(text)>>) \o Replace(Tail(text), from, to)

\* an escape that replaces the backslash after the other characters
escape_ldap_value_backslash_last(value) ==
  Replace(Replace(Replace(Replace(Replace(Replace(value,
    "*", <<"\\", "2", "a">>),
    "(", <<"\\", "2", "8">>),
    ")", <<"\\", "2", "9">>),
    "NUL", <<"\\", "0", "0">>),
    "/", <<"\\", "2", "f">>),
    "\\", <<"\\", "5", "c">>)

\* LdapClient::escape_ldap_value: six replace calls, the backslash first
escape_ldap_value(value) ==
  Replace(Replace(Replace(Replace(Replace(Replace(value,
    "\\", <<"\\", "5", "c">>),
    "*", <<"\\", "2", "a">>),
    "(", <<"\\", "2", "8">>),
    ")", <<"\\", "2", "9">>),
    "NUL", <<"\\", "0", "0">>),
    "/", <<"\\", "2", "f">>)

\* --------------------------------------------------------- rate limiter

Keys == {"a", "b"}

RateLimitConfig(max_attempts, window_secs) ==
  [max_attempts |-> max_attempts, window_secs |-> window_secs]

\* The configuration of tests::test_rate_limit, and the configurations the
\* limiter is followed for
TestConfig == RateLimitConfig(3, 60)

LimiterConfigs == {RateLimitConfig(m, w) : m \in 0..2, w \in 0..2}

RateLimitEntry(n, t) == [attempts |-> n, window_start |-> t]

NoEntry == RateLimitEntry(0, 0)

\* attempts.retain(..): the entries whose window has not yet elapsed
Retained(entries, config, t) ==
  LET kept == {k \in DOMAIN entries : t - entries[k].window_start < config.window_secs}
  IN [k \in kept |-> entries[k]]

\* Per key: the instant of the first admitted call of the current window and
\* the calls admitted since; whether the key was reset since its last call,
\* whether it was at its limit when it was last reset, and whether its last
\* call was the first one after a reset
NoLimiterHist ==
  [ window_start |-> None, admitted |-> 0, reset |-> FALSE,
    reset_at_limit |-> FALSE, first_after_reset |-> FALSE ]

\* ------------------------------------------------------ registration store

Usernames       == {"alice", "bob"}
PhoneNumbers    == {"+12025550123", "+12025550199"}
RegistrationIds == {"reg-1", "reg-2"}

\* AttributeValue::S(text), an attribute of another type, or no attribute
S(text)     == [type |-> "S", value |-> text]
NotAString  == [type |-> "N", value |-> "0"]
NoAttr      == [type |-> "none", value |-> ""]

\* The item save_registration builds
RegistrationItem(username, phone_number, registration_id) ==
  [ phone_number    |-> S(phone_number),
    username        |-> S(username),
    registration_id |-> S(registration_id) ]

NoItem == [phone_number |-> NoAttr, username |-> NoAttr, registration_id |-> NoAttr]

\* Items the table can hold under a key, written by this service or not
Items ==
  { [ phone_number    |-> S(p), username |-> u, registration_id |-> r ] :
      p \in PhoneNumbers,
      u \in {S(n) : n \in Usernames} \cup {NotAString, NoAttr},
      r \in {S(n) : n \in RegistrationIds} \cup {NotAString, NoAttr} }

\* PutItem that removes the item when the key is already there
put_item_toggle(table, item) ==
  LET key == item.phone_number.value
  IN IF key \in DOMAIN table
       THEN [k \in DOMAIN table \ {key} |-> table[k]]
       ELSE [k \in DOMAIN table \cup {key} |-> IF k = key THEN item ELSE table[k]]

\* DynamoDB PutItem: the item replaces whatever the key held
put_item(table, item) ==
  LET key == item.phone_number.value
  IN [k \in DOMAIN table \cup {key} |-> IF k = key THEN item ELSE table[k]]

\* DynamoDB DeleteItem
delete_item(table, key) == [k \in DOMAIN table \ {key} |-> table[k]]

\* The table after a save_registration whose put_item succeeded
Saved(table, username, phone_number, registration_id) ==
  put_item(table, RegistrationItem(username, phone_number, registration_id))

\* DynamoDbClient::get_registration on a table that answers
get_registration(table, phone_number) ==
  IF phone_number \notin DOMAIN table
    THEN [tag |-> "none", username |-> "", phone_number |-> "", registration_id |-> ""]
  ELSE LET item == table[phone_number]
       IN IF item.username.type # "S"
            THEN [tag |-> "ParseError", username |-> "username",
                  phone_number |-> "", registration_id |-> ""]
          ELSE IF item.registration_id.type # "S"
            THEN [tag |-> "ParseError", username |-> "registration_id",
                  phone_number |-> "", registration_id |-> ""]
          ELSE [tag |-> "record", username |-> item.username.value,
                phone_number |-> phone_number,
                registration_id |-> item.registration_id.value]

NoSave == [username |-> "", phone_number |-> "", registration_id |-> "", times |-> 0]

\* The state after construction, for a rate limiter built with config
InitWith(config, timeout) ==
  /\ now = 0
  /\ sessions = [id \in {} |-> NoLocal]
  /\ next_id = 1
  /\ overlaps = 0
  /\ codes_seen = 0
  /\ pc = [h \in Handlers |-> "idle"]
  /\ req = [h \in Handlers |-> NoReq]
  /\ local = [h \in Handlers |-> NoLocal]
  /\ resp = [h \in Handlers |-> NoResp]
  /\ hist = [id \in SessionIds |-> NoHist]
  /\ compared = [id \in SessionIds |-> 0]
  /\ twilio_requests = {}
  /\ registrations = [phone \in {} |-> NoItem]
  /\ last_save = NoSave
  /\ last_create = NoCreate
  /\ pool = <<"none">>
  /\ last_validate = NoValidate
  /\ limiter_config = config
  /\ attempts = [key \in {} |-> NoEntry]
  /\ limiter_hist = [key \in Keys |-> NoLimiterHist]
  /\ last_check = [key |-> "", admitted |-> FALSE]
  /\ info_log = {}
  /\ last_call = NoCall
  /\ last_filter = [username |-> <<>>, value |-> <<>>]
  /\ session_timeout = timeout
  /\ task = [t \in Tasks |-> IdleTask]
  /\ held = NoLocks

Init == InitWith(TestConfig, SessionTimeout)

\* ----------------------------------------------------------------- actions

\* Some stored session has not yet expired.
SomeSessionAlive == \E id \in DOMAIN sessions : ~is_expired(sessions[id], now)

\* The clock advances.  The handlers use the clock only through durations
\* measured from instants stored in a session, so the passing of time is
\* followed only while a session is alive.
Tick ==
  /\ SomeSessionAlive
  /\ now' = now + TickStep
  /\ UNCHANGED <<sessions, next_id, overlaps, codes_seen, pc, req, local, resp, hist>>

\* A record of the log at INFO or above: the statement that wrote it, and the
\* password value and the code value its text contains ("" and None when it
\* contains none).
LogRecord(line, password, code) ==
  [level |-> "INFO", line |-> line, password |-> password, code |-> code]

\* create_session: info!("Received metadata: {:?}", metadata) prints every
\* entry of the request metadata, the password entry included when the
\* request carries one; info!("Got password (length: {})") prints a length.
CreateLog(rq) ==
  (IF rq.password # "missing" THEN {LogRecord(101, rq.password, None)} ELSE {})
    \cup
  (IF rq.username \notin {"missing", "opaque"} /\ rq.password = "text"
     THEN {LogRecord(129, "", None)} ELSE {})

\* RegistrationServer::create_session after a successful authentication:
\* SessionStore::create_session(e164, self.session_timeout)
CreateSession(e164) ==
  /\ next_id \in SessionIds
  /\ LET id == next_id
         s  == NewSessionData(NewMetadata(id, e164, session_timeout), now)
     IN /\ sessions' = [i \in DOMAIN sessions \cup {id} |->
                           IF i = id THEN s ELSE sessions[i]]
        /\ hist' = [hist EXCEPT ![id].created_at = now, ![id].e164 = e164]
  /\ next_id' = next_id + 1
  /\ UNCHANGED <<now, overlaps, codes_seen, pc, req, local, resp>>

\* RegistrationServer::create_session
create_session(rq, d) ==
  LET auth == authenticate_user(d)
      e164 == ParseU64(auth.phone_number)
      Answer(requests, r) ==
        /\ last_create' = CreateExchange(rq, IF requests = 0 THEN NoAnswer ELSE d,
                                         requests, 0, r)
        /\ UNCHANGED session_vars
  IN /\ IF rq.username = "missing"
          THEN Answer(0, StatusResp("Username is required"))
        ELSE IF rq.username = "opaque"
          THEN Answer(0, StatusResp("Username must be valid UTF-8"))
        ELSE IF rq.password = "missing"
          THEN Answer(0, StatusResp("Password is required"))
        ELSE IF rq.password = "opaque"
          THEN Answer(0, StatusResp("Password must be valid UTF-8"))
        ELSE IF ~auth.ok
          THEN Answer(auth.requests, entra_error_to_registration_error(auth.error))
        ELSE IF e164 = None
          THEN Answer(auth.requests, StatusResp("Failed to parse phone number"))
        ELSE /\ CreateSession(e164)
             /\ last_create' =
                  CreateExchange(rq, d, auth.requests, next_id,
                                 MetadataResp(sessions'[next_id].metadata))
     /\ info_log' = info_log \cup CreateLog(rq)
     /\ UNCHANGED <<compared, twilio_requests, task, held, session_timeout, last_filter, last_call, store_vars, ldap_vars, limiter_vars>>

\* Some handler task is serving a request.
Busy == \E h \in Handlers : pc[h] # "idle"

\* The answer of each handler when get_session returns None.
NotFoundResp(kind) ==
  IF kind = "get" THEN StatusResp("Session not found")
                  ELSE ErrorResp("SESSION_NOT_FOUND", FALSE, 0)

\* The answer of each handler when session.is_expired().
ExpiredResp(kind) ==
  IF kind = "get" THEN StatusResp("Session expired")
                  ELSE ErrorResp("SESSION_NOT_FOUND", FALSE, 0)

\* A check request reads the session while the code it submits is the
\* session's stored code.
ReadsMatchingCode(store, r) ==
  /\ r.kind = "check"
  /\ r.session_id \in DOMAIN store
  /\ store[r.session_id].verification_code # None
  /\ store[r.session_id].verification_code = r.verification_code

\* The values generate_verification_code can return next.  The handlers only
\* compare codes for equality, so the values are numbered in the order in
\* which the generator first returns them.
NextCodes == {c \in Codes : c <= codes_seen + 1}

\* A request arrives and a handler task serves it up to the point where it
\* holds its copy of the session:
\*     self.session_store.cleanup_expired();
\*     if let Some(mut session) = self.session_store.get_session(&id) ... else
\* The arrival is seen by no other task, so a request that arrives earlier
\* and reads the session now behaves as one that arrives now.  The tasks are
\* interchangeable, so the free task with the smallest number takes it.
Start(h, r) ==
  /\ pc[h] = "idle"
  /\ \A g \in Handlers : g < h => pc[g] # "idle"
  /\ Busy => overlaps < MaxOverlaps
  /\ overlaps' = IF Busy THEN overlaps + 1 ELSE overlaps
  /\ sessions' = cleanup_expired(sessions, now)
  /\ req' = [req EXCEPT ![h] = [r EXCEPT
                 !.after_expiry = TtlElapsed(r.session_id, now),
                 !.after_wrong  = hist[r.session_id].wrong_checks >= MaxCheckAttempts]]
  /\ IF r.session_id \in DOMAIN sessions'
       THEN /\ local' = [local EXCEPT ![h] = sessions'[r.session_id]]
            /\ pc' = [pc EXCEPT ![h] = "body"]
            /\ resp' = resp
       ELSE /\ resp' = [resp EXCEPT ![h] = NotFoundResp(r.kind)]
            /\ pc' = [pc EXCEPT ![h] = "done"]
            /\ local' = local
  /\ hist' = IF ReadsMatchingCode(sessions', r)
               THEN [hist EXCEPT ![r.session_id].matched = TRUE]
               ELSE hist
  /\ UNCHANGED <<now, next_id, codes_seen>>

StartGet(h, id) ==
  Start(h, [NoReq EXCEPT !.kind = "get", !.session_id = id])

StartSend(h, id, transport) ==
  Start(h, [NoReq EXCEPT !.kind = "send", !.session_id = id, !.transport = transport])

StartCheck(h, id, code) ==
  Start(h, [NoReq EXCEPT !.kind = "check", !.session_id = id, !.verification_code = code])

\* The handler returns `r` without touching the store.
Refuse(h, r) ==
  /\ resp' = [resp EXCEPT ![h] = r]
  /\ pc' = [pc EXCEPT ![h] = "done"]
  /\ local' = [local EXCEPT ![h] = NoLocal]

\* The handler goes on to update_session with the changed copy `s`.
Proceed(h, s, to) ==
  /\ local' = [local EXCEPT ![h] = s]
  /\ pc' = [pc EXCEPT ![h] = to]
  /\ resp' = resp

\* get_session_metadata between get_session and update_session
GetBody(h) ==
  /\ pc[h] = "body"
  /\ req[h].kind = "get"
  /\ IF is_expired(local[h], now)
       THEN Refuse(h, ExpiredResp("get"))
       ELSE Proceed(h, update_timing(local[h], now), "update")
  /\ UNCHANGED <<now, sessions, next_id, overlaps, codes_seen, req, hist>>

\* The match on req.transport in send_verification_code: the refusal, or
\* the session with the send instant recorded.
SendGuard(s, transport, t) ==
  CASE transport = 0 ->
         IF ~s.metadata.may_request_sms
           THEN [ok |-> FALSE, session |-> s,
                 resp |-> ErrorResp("RATE_LIMITED", TRUE, s.metadata.next_sms_seconds)]
           ELSE [ok |-> TRUE, session |-> [s EXCEPT !.last_sms_at = t], resp |-> NoResp]
    [] transport = 1 ->
         IF ~s.metadata.may_request_voice_call
           THEN [ok |-> FALSE, session |-> s,
                 resp |-> ErrorResp("RATE_LIMITED", TRUE, s.metadata.next_voice_call_seconds)]
           ELSE [ok |-> TRUE, session |-> [s EXCEPT !.last_voice_call_at = t], resp |-> NoResp]
    [] OTHER ->
         [ok |-> FALSE, session |-> s,
          resp |-> ErrorResp("TRANSPORT_NOT_ALLOWED", FALSE, 0)]

\* "Generate and store verification code" on the handler's copy
StoreCode(s, code) ==
  [s EXCEPT !.verification_code = code,
            !.metadata.may_check_code = TRUE,
            !.metadata.next_code_check_seconds = 0]

\* send_verification_code between get_session and update_session
SendBody(h) ==
  /\ pc[h] = "body"
  /\ req[h].kind = "send"
  /\ IF is_expired(local[h], now)
       THEN Refuse(h, ExpiredResp("send")) /\ UNCHANGED <<codes_seen, info_log>>
       ELSE LET g == SendGuard(update_timing(local[h], now), req[h].transport, now)
            IN IF ~g.ok
                 THEN Refuse(h, g.resp) /\ UNCHANGED <<codes_seen, info_log>>
                 ELSE \E code \in NextCodes :
                        /\ Proceed(h, StoreCode(g.session, code), "update")
                        /\ codes_seen' = IF code > codes_seen THEN code ELSE codes_seen
                        /\ info_log' = info_log \cup {LogRecord(274, "", code)}
  /\ UNCHANGED <<now, sessions, next_id, overlaps, req, hist>>

\* a comparison that accepts any submitted code once a code is stored
CodeMatches_any(s, submitted) ==
  s.verification_code # None

\* "Verify the code": the comparison of the submitted code with the copy's
CodeMatches(s, submitted) ==
  s.verification_code # None /\ submitted = s.verification_code

\* The wrong-code branch on the handler's copy (grpc/mod.rs:351-352)
CountAttempt(s, t) ==
  update_timing([s EXCEPT !.verification_attempts = @ + 1], t)

\* check_verification_code between get_session and update_session
CheckBody(h) ==
  /\ pc[h] = "body"
  /\ req[h].kind = "check"
  /\ LET s == update_timing(local[h], now)
     IN IF is_expired(local[h], now)
          THEN Refuse(h, ExpiredResp("check"))
          ELSE IF ~s.metadata.may_check_code
          THEN Refuse(h, ErrorResp("RATE_LIMITED", TRUE, s.metadata.next_code_check_seconds))
          ELSE IF s.verification_code = None
          THEN Refuse(h, ErrorResp("NO_CODE_SENT", TRUE, 0))
          ELSE IF CodeMatches(s, req[h].verification_code)
          THEN Proceed(h, [s EXCEPT !.metadata.verified = TRUE], "update_verified")
          ELSE Proceed(h, CountAttempt(s, now), "update_attempts")
  /\ UNCHANGED <<now, sessions, next_id, overlaps, codes_seen, req, hist>>

\* self.session_store.update_session(&id, session.clone()) followed by the
\* Ok(Response::SessionMetadata(session.metadata)) that ends the handler
UpdateAndReply(h) ==
  /\ sessions' = update_session(sessions, req[h].session_id, local[h])
  /\ resp' = [resp EXCEPT ![h] = MetadataResp(local[h].metadata)]
  /\ pc' = [pc EXCEPT ![h] = "done"]
  /\ local' = [local EXCEPT ![h] = NoLocal]
  /\ UNCHANGED <<now, next_id, overlaps, codes_seen, req>>

\* grpc/mod.rs:182-186
GetUpdate(h) ==
  /\ pc[h] = "update"
  /\ req[h].kind = "get"
  /\ UpdateAndReply(h)
  /\ hist' = hist

\* grpc/mod.rs:276-281
SendUpdate(h) ==
  /\ pc[h] = "update"
  /\ req[h].kind = "send"
  /\ UpdateAndReply(h)
  /\ LET id == req[h].session_id
         s  == local[h]
     IN hist' = [hist EXCEPT
          ![id].last_issued = s.verification_code,
          ![id].sms_last    = IF req[h].transport = 0 THEN s.last_sms_at ELSE @,
          ![id].voice_last  = IF req[h].transport = 1 THEN s.last_voice_call_at ELSE @]

\* grpc/mod.rs:344-349
CheckUpdateVerified(h) ==
  /\ pc[h] = "update_verified"
  /\ UpdateAndReply(h)
  /\ hist' = hist

\* grpc/mod.rs:354-360
CheckUpdateAttempts(h) ==
  /\ pc[h] = "update_attempts"
  /\ UpdateAndReply(h)
  /\ hist' = [hist EXCEPT ![req[h].session_id].wrong_checks =
                             IF @ < MaxCheckAttempts THEN @ + 1 ELSE @]

\* The response has been delivered; the task ends.
Return(h) ==
  /\ pc[h] = "done"
  /\ pc' = [pc EXCEPT ![h] = "idle"]
  /\ req' = [req EXCEPT ![h] = NoReq]
  /\ resp' = [resp EXCEPT ![h] = NoResp]
  /\ UNCHANGED <<now, sessions, next_id, overlaps, codes_seen, local, hist>>

\* DynamoDbClient::save_registration; put_item succeeds or fails
save_registration(username, phone_number, registration_id, succeeds) ==
  /\ succeeds =>
       /\ registrations' = Saved(registrations, username, phone_number, registration_id)
       /\ last_save' =
            IF /\ last_save.username = username
               /\ last_save.phone_number = phone_number
               /\ last_save.registration_id = registration_id
              THEN [last_save EXCEPT !.times = IF @ < MaxRepeats THEN @ + 1 ELSE @]
              ELSE [username |-> username, phone_number |-> phone_number,
                    registration_id |-> registration_id, times |-> 1]
  /\ ~succeeds => UNCHANGED <<registrations, last_save>>
  /\ UNCHANGED session_vars
  /\ UNCHANGED <<compared, twilio_requests, task, held, session_timeout, last_filter, last_call, info_log, last_create, ldap_vars, limiter_vars>>

\* DynamoDbClient::delete_registration; delete_item succeeds or fails
delete_registration(phone_number, succeeds) ==
  /\ registrations' = IF succeeds THEN delete_item(registrations, phone_number)
                                   ELSE registrations
  /\ last_save' = IF succeeds THEN NoSave ELSE last_save
  /\ UNCHANGED session_vars
  /\ UNCHANGED <<compared, twilio_requests, task, held, session_timeout, last_filter, last_call, info_log, last_create, ldap_vars, limiter_vars>>

\* Another writer of the table puts an item of its own
ForeignPut(item) ==
  /\ registrations' = put_item(registrations, item)
  /\ last_save' = NoSave
  /\ UNCHANGED session_vars
  /\ UNCHANGED <<compared, twilio_requests, task, held, session_timeout, last_filter, last_call, info_log, last_create, ldap_vars, limiter_vars>>

\* LdapValidationServer::validate_credentials
validate_credentials(user_id, password, f) ==
  LET auth == ldap_authenticate_user(pool, user_id, password, f)
  IN /\ pool' = auth.pool
     /\ last_validate' =
          ValidateExchange(user_id, password, f, pool # <<>> \/ f.connect, auth.error,
                           IF auth.ok THEN PhoneNumberResult(auth.phone_number)
                                      ELSE ValidateError(ValidateErrorType(auth.error)))
     /\ UNCHANGED session_vars
     /\ UNCHANGED <<compared, twilio_requests, task, held, session_timeout, last_filter, last_call, info_log, store_vars, last_create, limiter_vars>>

\* An admitted call as the window of its key sees it
Admit(h, config, t) ==
  IF h.window_start = None \/ t - h.window_start >= config.window_secs
    THEN [h EXCEPT !.window_start = t, !.admitted = 1]
    ELSE [h EXCEPT !.admitted = @ + 1]

\* RateLimiter::check_rate_limit; the whole call holds the mutex
check_rate_limit(key) ==
  LET kept == Retained(attempts, limiter_config, now)
      Answer(entries, admitted) ==
        /\ attempts' = entries
        /\ last_check' = [key |-> key, admitted |-> admitted]
        /\ limiter_hist' = [limiter_hist EXCEPT ![key] =
                              [(IF admitted THEN Admit(@, limiter_config, now) ELSE @)
                                 EXCEPT !.reset = FALSE,
                                        !.first_after_reset = limiter_hist[key].reset]]
  IN /\ IF key \in DOMAIN kept
          THEN IF kept[key].attempts >= limiter_config.max_attempts
                 THEN Answer(kept, FALSE)
               ELSE IF now - kept[key].window_start >= limiter_config.window_secs
                 THEN Answer([kept EXCEPT ![key] = RateLimitEntry(1, now)], TRUE)
               ELSE Answer([kept EXCEPT ![key].attempts = @ + 1], TRUE)
          ELSE Answer([k \in DOMAIN kept \cup {key} |->
                         IF k = key THEN RateLimitEntry(1, now) ELSE kept[k]], TRUE)
     /\ UNCHANGED <<limiter_config>>
     /\ UNCHANGED session_vars
     /\ UNCHANGED <<compared, twilio_requests, task, held, session_timeout, last_filter, last_call, info_log, store_vars, last_create, ldap_vars>>

\* A reset that clears the table instead of removing one key
reset_rate_limit_all(key) ==
  /\ attempts' = [k \in {} |-> NoEntry]
  /\ limiter_hist' = [limiter_hist EXCEPT ![key] =
                        [ window_start |-> None, admitted |-> 0, reset |-> TRUE,
                          reset_at_limit |->
                            /\ key \in DOMAIN attempts
                            /\ attempts[key].attempts >= limiter_config.max_attempts,
                          first_after_reset |-> FALSE ]]
  /\ UNCHANGED <<limiter_config, last_check>>
  /\ UNCHANGED session_vars
  /\ UNCHANGED <<compared, twilio_requests, task, held, session_timeout, last_filter, last_call, info_log, store_vars, last_create, ldap_vars>>

\* RateLimiter::reset_rate_limit
reset_rate_limit(key) ==
  /\ attempts' = [k \in DOMAIN attempts \ {key} |-> attempts[k]]
  /\ limiter_hist' = [limiter_hist EXCEPT ![key] =
                        [ window_start |-> None, admitted |-> 0, reset |-> TRUE,
                          reset_at_limit |->
                            /\ key \in DOMAIN attempts
                            /\ attempts[key].attempts >= limiter_config.max_attempts,
                          first_after_reset |-> FALSE ]]
  /\ UNCHANGED <<limiter_config, last_check>>
  /\ UNCHANGED session_vars
  /\ UNCHANGED <<compared, twilio_requests, task, held, session_timeout, last_filter, last_call, info_log, store_vars, last_create, ldap_vars>>

\* The clock of the rate limiter advances by a second.
LimiterTick ==
  /\ now < MaxLimiterNow
  /\ now' = now + 1
  /\ UNCHANGED <<sessions, next_id, overlaps, codes_seen, pc, req, local, resp, hist>>
  /\ UNCHANGED quiet_vars

\* A handler has its response ready.
Replying == \E h \in Handlers : pc[h] = "done"

\* Requests with both credentials, and directory answers that authenticate
\* the user with a phone attribute that parses to one of Phones.
GoodRequest == [username |-> "text", password |-> "text"]

AcceptedAnswers ==
  { d \in UsersFound : d.attribute.present /\ ParseU64(d.attribute.value) \in Phones }

\* A ready response leaves the server before anything else happens: the
\* return of a handler shares no state with the other tasks.  A
\* create_session that creates no session changes nothing the other handlers
\* read; those are followed in CreateSpec.  Uuid::new_v4 is followed for the
\* ids of SessionIds.
Next ==
  \/ Replying /\ (\E h \in Handlers : Return(h)) /\ UNCHANGED quiet_vars
  \/ ~Replying /\ Tick /\ UNCHANGED quiet_vars
  \/ ~Replying /\ next_id \in SessionIds
               /\ \E d \in AcceptedAnswers : create_session(GoodRequest, d)
  \/ ~Replying /\ (\E h \in Handlers, id \in SessionIds : StartGet(h, id)) /\ UNCHANGED quiet_vars
  \/ ~Replying /\ (\E h \in Handlers, id \in SessionIds, t \in Transports : StartSend(h, id, t)) /\ UNCHANGED quiet_vars
  \/ ~Replying /\ (\E h \in Handlers, id \in SessionIds, c \in Codes : StartCheck(h, id, c)) /\ UNCHANGED quiet_vars
  \/ ~Replying /\ (\E h \in Handlers : GetBody(h)) /\ UNCHANGED quiet_vars
  \/ ~Replying /\ (\E h \in Handlers : SendBody(h)) /\ UNCHANGED other_vars
  \/ ~Replying /\ (\E h \in Handlers : CheckBody(h)) /\ UNCHANGED quiet_vars
  \/ ~Replying /\ (\E h \in Handlers : GetUpdate(h)) /\ UNCHANGED quiet_vars
  \/ ~Replying /\ (\E h \in Handlers : SendUpdate(h)) /\ UNCHANGED quiet_vars
  \/ ~Replying /\ (\E h \in Handlers : CheckUpdateVerified(h)) /\ UNCHANGED quiet_vars
  \/ ~Replying /\ (\E h \in Handlers : CheckUpdateAttempts(h)) /\ UNCHANGED quiet_vars

Spec == Init /\ [][Next]_vars

\* ------------------------------------------------- one request at a time

\* check_verification_code between get_session and update_session, with the
\* comparisons of the submitted code with the stored one counted
CheckBodyCounted(h) ==
  /\ CheckBody(h)
  /\ compared' =
       IF pc'[h] \in {"update_verified", "update_attempts"}
         THEN [compared EXCEPT ![req[h].session_id] =
                 IF @ <= MaxCheckAttempts THEN @ + 1 ELSE @]
         ELSE compared
  /\ UNCHANGED <<twilio_requests, task, held, session_timeout, last_filter, last_call, info_log, store_vars, last_create, ldap_vars, limiter_vars>>

\* The handlers when every request is answered before the next one arrives.
SerialNext ==
  \/ (\E h \in Handlers : Return(h)) /\ UNCHANGED quiet_vars
  \/ ~Replying /\ Tick /\ UNCHANGED quiet_vars
  \/ ~Busy /\ next_id \in SessionIds
           /\ \E d \in AcceptedAnswers : create_session(GoodRequest, d)
  \/ ~Busy /\ (\E h \in Handlers, id \in SessionIds : StartGet(h, id)) /\ UNCHANGED quiet_vars
  \/ ~Busy /\ (\E h \in Handlers, id \in SessionIds, t \in Transports : StartSend(h, id, t)) /\ UNCHANGED quiet_vars
  \/ ~Busy /\ (\E h \in Handlers, id \in SessionIds, c \in Codes : StartCheck(h, id, c)) /\ UNCHANGED quiet_vars
  \/ (\E h \in Handlers : GetBody(h)) /\ UNCHANGED quiet_vars
  \/ (\E h \in Handlers : SendBody(h)) /\ UNCHANGED other_vars
  \/ \E h \in Handlers : CheckBodyCounted(h)
  \/ (\E h \in Handlers : GetUpdate(h)) /\ UNCHANGED quiet_vars
  \/ (\E h \in Handlers : SendUpdate(h)) /\ UNCHANGED quiet_vars
  \/ (\E h \in Handlers : CheckUpdateVerified(h)) /\ UNCHANGED quiet_vars
  \/ (\E h \in Handlers : CheckUpdateAttempts(h)) /\ UNCHANGED quiet_vars

SerialSpec == Init /\ [][SerialNext]_vars

\* The server built with_session_timeout(LongSessionTimeout): sessions that
\* outlive the lockout after MaxCheckAttempts wrong codes.
LongSessionTimeout == LockoutSeconds + SmsDelay

LongSpec == InitWith(TestConfig, LongSessionTimeout) /\ [][SerialNext]_vars

\* Every request that has arrived is served to its end and the clock does
\* not stop: the tokio runtime polls every ready task.
LiveSpec == Init /\ [][SerialNext]_vars /\ WF_vars(SerialNext)

\* ------------------------------------------------- create_session alone

CreateNext ==
  \/ \E rq \in CreateRequests, d \in DirectoryAnswers : create_session(rq, d)
  \/ Tick /\ UNCHANGED quiet_vars

CreateSpec == Init /\ [][CreateNext]_vars

\* CreateSession requests keep being served and the clock does not stop while
\* a session is alive; no other request arrives.
CreateLiveSpec == Init /\ [][CreateNext]_vars /\ WF_vars(CreateNext)

\* ---------------------------------------------- the registration store alone

StoreNext ==
  \/ \E u \in Usernames, p \in PhoneNumbers, r \in RegistrationIds, ok \in BOOLEAN :
       save_registration(u, p, r, ok)
  \/ \E p \in PhoneNumbers, ok \in BOOLEAN : delete_registration(p, ok)
  \/ \E item \in Items : ForeignPut(item)

StoreSpec == Init /\ [][StoreNext]_vars

\* -------------------------------------------- the LDAP validation service alone

LdapNext ==
  \E user_id \in UserIds, password \in Passwords, f \in LdapFaults :
    validate_credentials(user_id, password, f)

LdapSpec == Init /\ [][LdapNext]_vars

\* ------------------------------------------------------ the rate limiter alone

LimiterInit == \E config \in LimiterConfigs : InitWith(config, SessionTimeout)

LimiterNext ==
  \/ \E key \in Keys : check_rate_limit(key)
  \/ \E key \in Keys : reset_rate_limit(key)
  \/ LimiterTick

LimiterSpec == LimiterInit /\ [][LimiterNext]_vars

\* ------------------------------------------- SessionStore called directly

\* What a call of a SessionStore method leaves alone.
registry_frame == <<overlaps, codes_seen, pc, req, resp, hist, compared, twilio_requests,
                    store_vars, last_create, ldap_vars, limiter_vars, info_log,
                    last_filter, session_timeout, task, held>>

\* SessionStore::create_session(e164, timeout)
StoreCreate(e164) ==
  /\ next_id \in RegistryIds
  /\ sessions' = [i \in DOMAIN sessions \cup {next_id} |->
                    IF i = next_id
                      THEN NewSessionData(NewMetadata(next_id, e164, session_timeout), now)
                      ELSE sessions[i]]
  /\ next_id' = next_id + 1
  /\ last_call' = StoreCall("create", next_id, TRUE, sessions, now)
  /\ UNCHANGED <<now, local>>
  /\ UNCHANGED registry_frame

\* SessionStore::get_session(id); the caller keeps the clone it is given.
StoreGet(id) ==
  LET got == get_session(sessions, id)
  IN /\ local' = IF got.some THEN [local EXCEPT ![1] = got.session] ELSE local
     /\ last_call' = StoreCall("get", id, got.some, sessions, now)
     /\ UNCHANGED <<now, sessions, next_id>>
     /\ UNCHANGED registry_frame

\* SessionStore::update_session(id, data): the caller writes back the clone
\* it holds, with one more attempt counted, under the id the clone carries
\* (0, an id the store never gave out, when the caller holds no clone).
StoreUpdate ==
  LET id   == local[1].metadata.session_id
      data == [local[1] EXCEPT !.verification_attempts =
                                  IF @ < MaxCheckAttempts THEN @ + 1 ELSE @]
  IN /\ sessions' = update_session(sessions, id, data)
     /\ last_call' = StoreCall("update", id, id \in DOMAIN sessions, sessions, now)
     /\ UNCHANGED <<now, next_id, local>>
     /\ UNCHANGED registry_frame

\* SessionStore::cleanup_expired()
StoreCleanup ==
  /\ sessions' = cleanup_expired(sessions, now)
  /\ last_call' = StoreCall("cleanup", 0, TRUE, sessions, now)
  /\ UNCHANGED <<now, next_id, local>>
  /\ UNCHANGED registry_frame

\* SystemTime::now() is the wall clock: it advances, and it can be set back.
ClockForward ==
  /\ now < MaxRegistryTicks * TickStep
  /\ now' = now + TickStep
  /\ UNCHANGED <<sessions, next_id, local, last_call>>
  /\ UNCHANGED registry_frame

ClockBack ==
  /\ now > 0
  /\ now' = now - TickStep
  /\ UNCHANGED <<sessions, next_id, local, last_call>>
  /\ UNCHANGED registry_frame

RegistryNext ==
  \/ \E e164 \in Phones : StoreCreate(e164)
  \/ \E id \in RegistryIds : StoreGet(id)
  \/ StoreUpdate
  \/ StoreCleanup
  \/ ClockForward
  \/ ClockBack

RegistrySpec == Init /\ [][RegistryNext]_vars

\* --------------------------------------------- the search filter alone

\* LdapClient::find_user up to the filter: clean_username, escaped_username
BuildFilter(username) ==
  /\ last_filter' = [username |-> username,
                     value |-> escape_ldap_value(SplitFirst(username))]
  /\ UNCHANGED session_vars
  /\ UNCHANGED <<compared, twilio_requests, task, held, session_timeout, store_vars, last_create, ldap_vars,
                 limiter_vars, info_log, last_call>>

\* The usernames are tried in order of length: each is the one before with
\* a character added.
FilterNext ==
  \E ch \in UsernameChars :
    /\ Len(last_filter.username) < MaxUsernameLen
    /\ BuildFilter(Append(last_filter.username, ch))

FilterSpec == Init /\ [][FilterNext]_vars

\* ------------------------------------------------------- the locks alone

\* What a step of the lock operations leaves alone.
lock_frame == <<session_vars, compared, twilio_requests, store_vars, last_create, ldap_vars,
                limiter_vars, info_log, last_call, last_filter, session_timeout>>

\* Task t moves to position `to`.
GoTo(t, to) == task' = [task EXCEPT ![t].at = to]

\* A request arrives and a free task takes it.  create_session first awaits
\* the directory; the other handlers first call cleanup_expired; a rate
\* limiter call first awaits its mutex.
TaskStart(t, kind) ==
  /\ task[t].at = "idle"
  /\ task' = [task EXCEPT ![t] =
                 [kind |-> kind,
                  at   |-> CASE kind = "create" -> "auth"
                             [] kind = "limit"  -> "limit_wait"
                             [] OTHER           -> "sweep_wait"]]
  /\ UNCHANGED held
  /\ UNCHANGED lock_frame

\* create_session: entra_client.authenticate_user(..).await returns; on Ok
\* the handler goes on to SessionStore::create_session.
AuthReturns(t) ==
  /\ task[t].at = "auth"
  /\ \E to \in {"insert_wait", "done"} : GoTo(t, to)
  /\ UNCHANGED held
  /\ UNCHANGED lock_frame

\* sessions.write(): granted when nobody holds the lock
AcquireWrite(t) ==
  /\ task[t].at \in {"sweep_wait", "update_wait", "insert_wait"}
  /\ held.writer = 0 /\ held.readers = {}
  /\ held' = [held EXCEPT !.writer = t]
  /\ GoTo(t, CASE task[t].at = "sweep_wait"  -> "sweep"
                [] task[t].at = "update_wait" -> "update"
                [] OTHER                      -> "insert")
  /\ UNCHANGED lock_frame

\* sessions.read(): granted when no writer holds the lock
AcquireRead(t) ==
  /\ task[t].at = "get_wait"
  /\ held.writer = 0
  /\ held' = [held EXCEPT !.readers = @ \cup {t}]
  /\ GoTo(t, "get")
  /\ UNCHANGED lock_frame

\* attempts.lock().await: granted when nobody holds the mutex
AcquireMutex(t) ==
  /\ task[t].at = "limit_wait"
  /\ held.mutex = 0
  /\ held' = [held EXCEPT !.mutex = t]
  /\ GoTo(t, "limit")
  /\ UNCHANGED lock_frame

\* cleanup_expired: retain under the write lock, then get_session is called
Sweep(t) ==
  /\ task[t].at = "sweep"
  /\ held' = Drop(held, t)
  /\ GoTo(t, "get_wait")
  /\ UNCHANGED lock_frame

\* get_session: the clone under the read lock; Some goes on to the body of
\* the handler, None is answered at once
Get(t) ==
  /\ task[t].at = "get"
  /\ held' = Drop(held, t)
  /\ \E to \in {"body", "done"} : GoTo(t, to)
  /\ UNCHANGED lock_frame

\* The handler works on its clone: it returns an error, or goes on to
\* update_session.
Body(t) ==
  /\ task[t].at = "body"
  /\ \E to \in {"update_wait", "done"} : GoTo(t, to)
  /\ UNCHANGED held
  /\ UNCHANGED lock_frame

\* update_session, SessionStore::create_session, check_rate_limit: the work
\* under the lock, to the end of the function
Critical(t) ==
  /\ task[t].at \in {"update", "insert", "limit"}
  /\ held' = Drop(held, t)
  /\ GoTo(t, "done")
  /\ UNCHANGED lock_frame

\* The response is sent.
Finish(t) ==
  /\ task[t].at = "done"
  /\ task' = [task EXCEPT ![t] = IdleTask]
  /\ UNCHANGED held
  /\ UNCHANGED lock_frame

\* The steps of task t that wait for nothing, and those that wait for a lock
Runs(t) ==
  AuthReturns(t) \/ Sweep(t) \/ Get(t) \/ Body(t) \/ Critical(t) \/ Finish(t)

Acquires(t) == AcquireWrite(t) \/ AcquireRead(t) \/ AcquireMutex(t)

LockNext ==
  \/ \E t \in Tasks, kind \in TaskKinds : TaskStart(t, kind)
  \/ \E t \in Tasks : AuthReturns(t)
  \/ \E t \in Tasks : AcquireWrite(t)
  \/ \E t \in Tasks : AcquireRead(t)
  \/ \E t \in Tasks : AcquireMutex(t)
  \/ \E t \in Tasks : Sweep(t)
  \/ \E t \in Tasks : Get(t)
  \/ \E t \in Tasks : Body(t)
  \/ \E t \in Tasks : Critical(t)
  \/ \E t \in Tasks : Finish(t)

LockSpec == Init /\ [][LockNext]_vars

\* The runtime polls every task that can run, the directory answers, and a
\* task that waits for a lock that is freed again and again is granted it.
LockLiveSpec ==
  /\ Init /\ [][LockNext]_vars
  /\ \A t \in Tasks : WF_vars(Runs(t)) /\ SF_vars(Acquires(t))

TypeOK ==
  /\ now \in 0..SessionTimeout
  /\ DOMAIN sessions \subseteq SessionIds

\* ------------------------------------------------------------------ claims

\* Handler h has answered a request of kind k and the response is ready.
Answered(h, k) == pc[h] = "done" /\ req[h].kind = k

\* The response says that the session does not exist (or has expired).
IsNotFound(r) ==
  \/ r.tag = "status"
  \/ r.tag = "error" /\ r.error_type = "SESSION_NOT_FOUND"

\* C1: a session whose verified flag is true has been read by a
\* CheckVerificationCode whose submitted code was the session's stored code
\* at that step, and a SendVerificationCode had issued a code before.
C1_VerifiedWasMatched ==
  \A id \in DOMAIN sessions :
    sessions[id].metadata.verified =>
      hist[id].matched /\ hist[id].last_issued # None

C1_Witness ==
  \E id \in DOMAIN sessions : sessions[id].metadata.verified

\* C2: verified is sticky-true: in no step does a session that stays in the
\* store go from verified to not verified.
C2_VerifiedSticky ==
  [][\A id \in DOMAIN sessions :
       (id \in DOMAIN sessions' /\ sessions[id].metadata.verified)
         => sessions'[id].metadata.verified]_vars

\* C3: verification_attempts never exceeds MaxCheckAttempts, neither in the
\* store nor in the copy a handler is working on.
C3_AttemptsBounded ==
  /\ \A id \in DOMAIN sessions :
       sessions[id].verification_attempts <= MaxCheckAttempts
  /\ \A h \in Handlers : local[h].verification_attempts <= MaxCheckAttempts

C3_Witness ==
  \E id \in DOMAIN sessions :
    sessions[id].verification_attempts = MaxCheckAttempts

\* C4: no increment of the attempt counter is lost: the update_session of
\* every wrong-code check raises the stored counter by exactly one.
C4_NoLostIncrement ==
  [][\A h \in Handlers :
       (/\ pc[h] = "update_attempts"
        /\ pc'[h] = "done"
        /\ req[h].session_id \in DOMAIN sessions)
         => sessions'[req[h].session_id].verification_attempts
              = sessions[req[h].session_id].verification_attempts + 1]_vars

\* C5: a CheckVerificationCode that passes the guards sets verified exactly
\* when the submitted code is the code issued by the most recent successful
\* SendVerificationCode on the session: the update_session of a check writes
\* verified = true for that code and counts an attempt for every other one.
C5_OnlyActiveCodeVerifies ==
  [][\A h \in Handlers :
       (/\ pc[h] \in {"update_verified", "update_attempts"}
        /\ pc'[h] = "done")
         => (pc[h] = "update_verified"
               <=> req[h].verification_code = hist[req[h].session_id].last_issued)]_vars

\* C6: two successful sends on one channel of one session are at least the
\* channel's delay apart: a send that succeeds recorded its instant at least
\* SmsDelay (VoiceDelay) after the previous successful send on the channel.
C6_SendsSpaced ==
  [][\A h \in Handlers :
       (pc[h] = "update" /\ req[h].kind = "send" /\ pc'[h] = "done") =>
         LET id == req[h].session_id IN
           /\ (req[h].transport = 0 /\ hist[id].sms_last # None)
                => local[h].last_sms_at - hist[id].sms_last >= SmsDelay
           /\ (req[h].transport = 1 /\ hist[id].voice_last # None)
                => local[h].last_voice_call_at - hist[id].voice_last >= VoiceDelay]_vars

\* C7: a request that arrives once the TTL of the session it names has
\* elapsed is answered NOT_FOUND (GetSessionMetadata) or SESSION_NOT_FOUND
\* (SendVerificationCode, CheckVerificationCode).
C7_ExpiredIsNotFound ==
  \A h \in Handlers :
    (pc[h] = "done" /\ req[h].after_expiry) =>
      /\ IsNotFound(resp[h])
      /\ req[h].kind = "get" <=> resp[h].tag = "status"

C7_Witness ==
  /\ \E h \in Handlers : Answered(h, "send") /\ req[h].after_expiry
  /\ \A id \in SessionIds : hist[id].created_at # None /\ hist[id].last_issued # None

\* C8: SendVerificationCode(VOICE) on a live session on which no SMS has
\* been sent is refused with TRANSPORT_NOT_ALLOWED.
C8_VoiceNeedsSms ==
  \A h \in Handlers :
    (/\ Answered(h, "send")
     /\ req[h].transport = 1
     /\ hist[req[h].session_id].sms_last = None
     /\ ~IsNotFound(resp[h]))
      => resp[h].tag = "error" /\ resp[h].error_type = "TRANSPORT_NOT_ALLOWED"

\* C9: CheckVerificationCode on a live session for which no code has been
\* sent fails with NO_CODE_SENT.
C9_NoCodeSent ==
  \A h \in Handlers :
    (/\ Answered(h, "check")
     /\ hist[req[h].session_id].last_issued = None
     /\ ~IsNotFound(resp[h]))
      => resp[h].tag = "error" /\ resp[h].error_type = "NO_CODE_SENT"

\* C10: a request on a live session that arrives after three checks were
\* answered "wrong code": a CheckVerificationCode is refused RATE_LIMITED
\* with retry_after_seconds > 0, and a GetSessionMetadata reports
\* may_check_code = false.
C10_Lockout ==
  \A h \in Handlers :
    (pc[h] = "done" /\ req[h].after_wrong /\ ~IsNotFound(resp[h])) =>
      /\ req[h].kind = "check" =>
           /\ resp[h].tag = "error"
           /\ resp[h].error_type = "RATE_LIMITED"
           /\ resp[h].retry_after_seconds > 0
      /\ req[h].kind = "get" => ~resp[h].metadata.may_check_code

\* C11: every CheckVerificationCode that reaches the code comparison raises
\* verification_attempts of the session it works on by exactly one, whether
\* the submitted code is wrong or right.
C11_EveryCheckCounts ==
  [][\A h \in Handlers :
       (/\ pc[h] = "body"
        /\ req[h].kind = "check"
        /\ pc'[h] \in {"update_verified", "update_attempts"})
         => local'[h].verification_attempts = local[h].verification_attempts + 1]_vars

\* C13: GetSessionMetadata on the id of a created session whose TTL has not
\* elapsed returns metadata with that id and with the e164 the session was
\* created for.
C13_RoundTrip ==
  \A h \in Handlers :
    (/\ Answered(h, "get")
     /\ hist[req[h].session_id].created_at # None
     /\ ~TtlElapsed(req[h].session_id, now))
      => /\ resp[h].tag = "metadata"
         /\ resp[h].metadata.session_id = req[h].session_id
         /\ resp[h].metadata.e164 = hist[req[h].session_id].e164

C13_Witness ==
  \E h \in Handlers :
    /\ Answered(h, "get")
    /\ resp[h].tag = "metadata"
    /\ resp[h].metadata.e164 \in Phones
    /\ hist[req[h].session_id].last_issued # None

\* C12: within a session's lifetime the submitted code is compared with the
\* stored one at most MaxCheckAttempts times; every further
\* CheckVerificationCode is refused before the comparison.
C12_ComparisonsBounded ==
  \A id \in SessionIds : compared[id] <= MaxCheckAttempts

\* The decimal digits of a u64
RECURSIVE Decimal(_)
Decimal(n) ==
  IF n < 10 THEN <<DigitChars[n + 1]>>
  ELSE Append(Decimal(n \div 10), DigitChars[(n % 10) + 1])

\* The phone attribute without the plus sign of E.164
NationalDigits(str) == IF str # <<>> /\ Head(str) = "+" THEN Tail(str) ELSE str

\* A create_session has just answered with session metadata.
Created == last_create' # last_create /\ last_create'.response.tag = "metadata"

\* C14: a create_session that answers with metadata has stored a new session
\* equal to that metadata, not verified, free to request an SMS and a voice
\* call, not free to check a code, without code, attempts or send instants,
\* with the e164 the directory returned and the configured timeout.
C14_FreshSession ==
  [][Created =>
       LET id == last_create'.session_id
           m  == last_create'.response.metadata
       IN /\ id \notin DOMAIN sessions
          /\ id \in DOMAIN sessions'
          /\ sessions'[id].metadata = m
          /\ m.session_id = id
          /\ ~m.verified
          /\ m.may_request_sms
          /\ m.may_request_voice_call
          /\ ~m.may_check_code
          /\ sessions'[id].verification_code = None
          /\ sessions'[id].verification_attempts = 0
          /\ sessions'[id].last_sms_at = None
          /\ sessions'[id].last_voice_call_at = None
          /\ Decimal(m.e164) = NationalDigits(last_create'.directory.attribute.value)
          /\ m.expiration_seconds = SessionTimeout]_vars

C14_Witness ==
  /\ last_create.response.tag = "metadata"
  /\ last_create.directory.attribute.value = <<"+", "1", "2">>
  /\ last_create.session_id \in DOMAIN sessions
  /\ sessions[last_create.session_id].metadata.e164 = 12

\* C15: create_session asks the rate limiter before the directory: a
\* RATE_LIMITED answer is given without any request to the directory and
\* without a session, and the directory is only asked after the limiter was.
C15_LimiterBeforeDirectory ==
  /\ last_create.response.error_type = "RATE_LIMITED"
       => /\ last_create.directory_requests = 0
          /\ last_create.session_id = 0
  /\ last_create.directory_requests > 0 => last_create.limiter_calls > 0

\* C16: a session holds a verification code only if the transport was asked
\* to deliver to the session's phone.
C16_CodeWasSent ==
  \A id \in DOMAIN sessions :
    sessions[id].verification_code # None
      => \E t \in Transports : <<sessions[id].metadata.e164, t>> \in twilio_requests

\* C17: once a session is verified, a registration record is eventually in
\* the registration store.
C17_VerifiedIsCommitted ==
  \A id \in SessionIds :
    (id \in DOMAIN sessions /\ sessions[id].metadata.verified)
      ~> (\E p \in DOMAIN registrations :
            get_registration(registrations, p).tag = "record")

\* C18: whatever the table holds, a save_registration executed a second time
\* with the same arguments leaves the table as the first one left it, and
\* get_registration returns the one record saved.
C18_SaveIdempotent ==
  \A u \in Usernames, p \in PhoneNumbers, r \in RegistrationIds :
    LET once  == Saved(registrations, u, p, r)
        twice == Saved(once, u, p, r)
    IN /\ twice = once
       /\ get_registration(twice, p) = get_registration(once, p)
       /\ get_registration(once, p) =
            [tag |-> "record", username |-> u, phone_number |-> p, registration_id |-> r]
       /\ last_save.times >= 2 =>
            /\ Saved(registrations, last_save.username, last_save.phone_number,
                     last_save.registration_id) = registrations
            /\ get_registration(registrations, last_save.phone_number) =
                 [tag |-> "record", username |-> last_save.username,
                  phone_number |-> last_save.phone_number,
                  registration_id |-> last_save.registration_id]

C18_Witness ==
  /\ last_save.times >= 2
  /\ get_registration(registrations, last_save.phone_number).tag = "record"
  /\ \E p \in DOMAIN registrations : get_registration(registrations, p).tag = "ParseError"

\* The directory's answers that the client reports as an unknown user, as a
\* rejected password, and as the directory being out of reach or failing.
NoSuchUser(d)  == authenticate_user(d).error = "UserNotFound"
BadPassword(d) == authenticate_user(d).error = "AuthenticationFailed"
Unavailable(d) ==
  \/ authenticate_user(d).error = "Http"
  \/ IsServerError(d.token_status)
  \/ IsServerError(d.user_status)

\* The last create_session asked the directory.
Asked == last_create.directory_requests > 0

\* C19: a create_session answered for an unknown user and the next one
\* answered for a rejected password get the same response, field by field.
C19_SameAnswer ==
  [][(/\ Asked
      /\ Asked'
      /\ \/ NoSuchUser(last_create.directory) /\ BadPassword(last_create'.directory)
         \/ BadPassword(last_create.directory) /\ NoSuchUser(last_create'.directory))
       => /\ last_create'.response = last_create.response
          /\ last_create'.session_id = last_create.session_id]_vars

C19_Witness ==
  /\ Asked
  /\ NoSuchUser(last_create.directory)
  /\ last_create.response.tag = "error"
  /\ last_create.response.error_type = "UNSPECIFIED"

\* C20: when the directory is out of reach or fails on its side,
\* create_session answers UNSPECIFIED with may_retry set and creates no
\* session.
C20_UnavailableMayRetry ==
  (Asked /\ Unavailable(last_create.directory))
    => /\ last_create.response.tag = "error"
       /\ last_create.response.error_type = "UNSPECIFIED"
       /\ last_create.response.may_retry
       /\ last_create.session_id = 0

\* The directory authenticated the user of the last create_session and
\* returned a phone value that is not a number.
PhoneUnparsable ==
  /\ Asked
  /\ authenticate_user(last_create.directory).ok
  /\ ParseU64(authenticate_user(last_create.directory).phone_number) = None

\* C21: when the directory authenticates the user but its phone value does
\* not parse, create_session answers with the error ILLEGAL_PHONE_NUMBER
\* inside its response and creates no session.
C21_UnparsablePhoneIsIllegal ==
  PhoneUnparsable
    => /\ last_create.response.tag = "error"
       /\ last_create.response.error_type = "ILLEGAL_PHONE_NUMBER"
       /\ last_create.session_id = 0

\* What the directory did in the last validate_credentials: no entry matched,
\* the user's password was rejected, the entry has no usable phone number,
\* the directory failed in another way.
Validated == last_validate.response.tag # "none"

Searched == last_validate.connected /\ last_validate.faults.search = "ok"

EntryMissing ==
  /\ Searched
  /\ CleanUsername(last_validate.user_id) \notin DOMAIN LdapEntries

PhoneMissing ==
  /\ Searched
  /\ find_user(last_validate.user_id) \in {"PhoneNumberNotFound", "PhoneNumberEmpty"}

PasswordRejected ==
  /\ Searched
  /\ find_user(last_validate.user_id) = ""
  /\ last_validate.faults.admin_bind = "ok"
  /\ last_validate.faults.user_bind # "io"
  /\ \/ last_validate.faults.user_bind = "rc"
     \/ last_validate.password # LdapEntries[CleanUsername(last_validate.user_id)].password

\* C22: validate_credentials returns the phone number only when the entry
\* was found and the bind with the given password succeeded; otherwise the
\* error type is 1 for no entry, 2 for a rejected password, 3 for a missing
\* or empty phone attribute and 4 for every other failure of the directory.
C22_ValidateErrorTypes ==
  Validated =>
    /\ last_validate.response.tag = "phone_number"
         => /\ find_user(last_validate.user_id) = ""
            /\ ~PasswordRejected
            /\ last_validate.faults.user_bind = "ok"
    /\ last_validate.response.tag = "error"
         => last_validate.response.error_type =
              IF EntryMissing THEN 1
              ELSE IF PhoneMissing THEN 3
              ELSE IF PasswordRejected THEN 2
              ELSE 4

\* C23: within one window, which starts at the key's first admitted call, at
\* most max_attempts calls are admitted for the key, for every key and
\* every configuration.
C23_WindowAdmitsAtMostMax ==
  \A key \in Keys : limiter_hist[key].admitted <= limiter_config.max_attempts

\* C24: the first check_rate_limit of a key after its reset_rate_limit is
\* admitted, and a reset leaves the entry of every other key as it was.
C24_ResetAdmitsAndFrames ==
  [][/\ \A key \in Keys :
          (limiter_hist[key].reset /\ ~limiter_hist'[key].reset)
            => last_check' = [key |-> key, admitted |-> TRUE]
     /\ \A key \in Keys :
          (~limiter_hist[key].reset /\ limiter_hist'[key].reset)
            => /\ key \notin DOMAIN attempts'
               /\ DOMAIN attempts' = DOMAIN attempts \ {key}
               /\ \A other \in DOMAIN attempts' : attempts'[other] = attempts[other]]_vars

C24_Witness ==
  \E key \in Keys, other \in Keys :
    /\ key # other
    /\ limiter_hist[key].first_after_reset
    /\ limiter_hist[key].reset_at_limit
    /\ last_check = [key |-> key, admitted |-> TRUE]
    /\ other \in DOMAIN attempts
    /\ attempts[other].attempts = limiter_config.max_attempts
    /\ limiter_config.max_attempts = 2

\* The limit of C23 for the configurations that admit at least one call
AdmitsAtMostMaxWhenPositive ==
  limiter_config.max_attempts >= 1 => C23_WindowAdmitsAtMostMax

\* C25: a request naming a session that has expired gets the response that the
\* same request gets for an id that never existed, also when the session
\* expires between the handler's read and its expiry test.
C25_ExpiredLooksAbsent ==
  [][\A h \in Handlers :
       (pc[h] = "body" /\ pc'[h] = "done" /\ is_expired(local[h], now))
         => resp'[h] = NotFoundResp(req[h].kind)]_vars

\* C26: no log record written at INFO or above contains a caller's password
\* value or a verification code value.
C26_NoSecretInLog ==
  \A record \in info_log : record.password = "" /\ record.code = None

\* C27: every expired session is eventually removed from the store, also when
\* no GetSessionMetadata, SendVerificationCode or CheckVerificationCode request
\* arrives after it expired.
C27_ExpiredIsSwept ==
  \A id \in SessionIds :
    (id \in DOMAIN sessions /\ is_expired(sessions[id], now))
      ~> (id \notin DOMAIN sessions)

\* C28: the phone number, the session id, the creation instant and
\* expiration_seconds of a stored session are the same after every step of
\* every handler, under every interleaving.
C28_IdentityFieldsFrozen ==
  [][\A id \in DOMAIN sessions \cap DOMAIN sessions' :
       /\ sessions'[id].metadata.e164 = sessions[id].metadata.e164
       /\ sessions'[id].metadata.session_id = sessions[id].metadata.session_id
       /\ sessions'[id].created_at = sessions[id].created_at
       /\ sessions'[id].metadata.expiration_seconds = sessions[id].metadata.expiration_seconds]_vars

C28_Witness ==
  \E id \in DOMAIN sessions :
    /\ overlaps >= 1
    /\ now > sessions[id].created_at
    /\ sessions[id].metadata.verified
    /\ sessions[id].last_sms_at # None
    /\ sessions[id].verification_attempts >= 1
    /\ sessions[id].metadata.e164 = hist[id].e164
    /\ sessions[id].created_at = hist[id].created_at
    /\ sessions[id].metadata.expiration_seconds = SessionTimeout

\* C29: no step lowers the verification_attempts of a stored session, under
\* any interleaving of handlers on that session.
C29_AttemptsNeverDecrease ==
  [][\A id \in DOMAIN sessions \cap DOMAIN sessions' :
       sessions'[id].verification_attempts >= sessions[id].verification_attempts]_vars

\* C30: when a check_verification_code that found its code matching has
\* written the session back, the stored session has no verification code.
C30_CodeClearedOnSuccess ==
  [][\A h \in Handlers :
       (pc[h] = "update_verified" /\ pc'[h] # "update_verified"
          /\ req[h].session_id \in DOMAIN sessions')
         => sessions'[req[h].session_id].verification_code = None]_vars

\* The call before this state was get_session for an id whose stored session
\* had expired.
GotExpired ==
  /\ last_call.op = "get"
  /\ last_call.id \in DOMAIN last_call.before
  /\ is_expired(last_call.before[last_call.id], last_call.at)

\* C31: get_session returns None for an id that is absent or whose session
\* has expired, and in the expired case the lookup removes the session.
C31_LookupHidesExpired ==
  /\ (last_call.op = "get" /\ last_call.id \notin DOMAIN last_call.before) => ~last_call.ok
  /\ GotExpired => (~last_call.ok /\ last_call.id \notin DOMAIN sessions)

\* The characters an LDAP filter value must not hold as themselves, and the
\* two hexadecimal digits of the escape of each
Escapes ==
  [ ch \in {"\\", "*", "(", ")", "NUL", "/"} |->
      CASE ch = "\\" -> <<"5", "c">>
        [] ch = "*"  -> <<"2", "a">>
        [] ch = "("  -> <<"2", "8">>
        [] ch = ")"  -> <<"2", "9">>
        [] ch = "NUL" -> <<"0", "0">>
        [] OTHER     -> <<"2", "f">> ]

\* The value with every character of DOMAIN Escapes replaced by a backslash
\* and its two digits, in one pass from left to right
RECURSIVE EscapedOnce(_)
EscapedOnce(text) ==
  IF text = <<>> THEN <<>>
  ELSE (IF Head(text) \in DOMAIN Escapes THEN <<"\\">> \o Escapes[Head(text)]
                                          ELSE <<Head(text)>>) \o EscapedOnce(Tail(text))

\* The number of characters of the text that are in the set
RECURSIVE CountIn(_, _)
CountIn(text, set) ==
  IF text = <<>> THEN 0
  ELSE (IF Head(text) \in set THEN 1 ELSE 0) + CountIn(Tail(text), set)

\* C32: the filter value find_user builds is the part of the username before
\* the first '@' with each of \ * ( ) NUL / replaced by its escape: none of
\* * ( ) NUL / is left in it, every backslash in it starts an escape, and it
\* has one backslash for each replaced character of the input.
C32_FilterValueEscaped ==
  LET value == last_filter.value
      clean == SplitFirst(last_filter.username)
  IN /\ value = EscapedOnce(clean)
     /\ \A i \in DOMAIN value : value[i] \notin {"*", "(", ")", "NUL", "/", "@"}
     /\ \A i \in DOMAIN value :
          value[i] = "\\" =>
            /\ i + 2 <= Len(value)
            /\ <<value[i + 1], value[i + 2]>> \in {Escapes[ch] : ch \in DOMAIN Escapes}
     /\ CountIn(value, {"\\"}) = CountIn(clean, DOMAIN Escapes)

C32_Witness ==
  /\ last_filter.username = <<"\\", "*", "@">>
  /\ last_filter.value = <<"\\", "5", "c", "\\", "2", "a">>

\* A request of the kind arriving at instant t on stored session s is not
\* refused as RATE_LIMITED: the guard each handler tests after update_timing.
NotRateLimited(s, kind, t) ==
  LET m == update_timing(s, t).metadata
  IN CASE kind = "sms"   -> m.may_request_sms
       [] kind = "voice" -> m.may_request_voice_call
       [] OTHER          -> m.may_check_code

\* The metadata m says what a request arriving at instant t on s would meet.
Truthful(m, s, t) ==
  /\ m.may_request_sms = NotRateLimited(s, "sms", t)
  /\ m.may_request_voice_call = NotRateLimited(s, "voice", t)
  /\ m.may_check_code = NotRateLimited(s, "check", t)
  /\ (m.next_sms_seconds = 0) = m.may_request_sms
  /\ (m.next_voice_call_seconds = 0) = m.may_request_voice_call
  /\ (m.next_code_check_seconds = 0) = m.may_check_code

\* C33: the SessionMetadata a handler returns is truthful at that moment:
\* each may_* flag is true exactly when the request it is about, arriving
\* next, would not be refused as RATE_LIMITED, and each next_*_seconds is 0
\* exactly when its flag is true.
C33_MetadataTruthful ==
  [][\A h \in Handlers :
       (/\ pc[h] # "done" /\ pc'[h] = "done"
        /\ resp'[h].tag = "metadata"
        /\ req[h].session_id \in DOMAIN sessions'
        /\ ~is_expired(sessions'[req[h].session_id], now'))
         => Truthful(resp'[h].metadata, sessions'[req[h].session_id], now')]_vars

\* Handler h takes a send or check request in this step, or ends one with an
\* error response.
ErrorCallStep(h) ==
  \/ /\ pc[h] = "idle" /\ pc'[h] = "body"
     /\ req'[h].kind \in {"send", "check"}
  \/ /\ pc[h] # "done" /\ pc'[h] = "done"
     /\ req'[h].kind \in {"send", "check"}
     /\ resp'[h].tag = "error"

\* The step leaves the entry of the id alone: absent before and after, or
\* present with the same value.
EntryKept(id) ==
  /\ (id \in DOMAIN sessions) = (id \in DOMAIN sessions')
  /\ id \in DOMAIN sessions => sessions'[id] = sessions[id]

\* C34 as stated: no step of a SendVerificationCode or CheckVerificationCode
\* call that returns an error changes, creates or removes the session stored
\* under its id.
C34_ErrorLeavesSession ==
  [][\A h \in Handlers : ErrorCallStep(h) => EntryKept(req'[h].session_id)]_vars

\* C34 amended: such a call changes nothing of the session stored under its
\* id and creates none; it removes the session only when the session has
\* expired, by the sweep it starts with, and then answers SESSION_NOT_FOUND.
C34_ErrorLeavesLiveSession ==
  [][\A h \in Handlers :
       ErrorCallStep(h) =>
         LET id == req'[h].session_id
         IN \/ EntryKept(id)
            \/ /\ id \in DOMAIN sessions
               /\ is_expired(sessions[id], now)
               /\ id \notin DOMAIN sessions'
               /\ resp'[h] = ErrorResp("SESSION_NOT_FOUND", FALSE, 0)]_vars

C34_Witness ==
  \E h \in Handlers :
    /\ Answered(h, "check")
    /\ resp[h] = ErrorResp("RATE_LIMITED", TRUE, LockoutSeconds)
    /\ req[h].session_id \in DOMAIN sessions
    /\ sessions[req[h].session_id].verification_attempts = MaxCheckAttempts
    /\ sessions[req[h].session_id].verification_code # None

\* C35: the write-back of get_session_metadata changes none of verified,
\* verification_attempts, verification_code, last_sms_at and
\* last_voice_call_at of the stored session, under any interleaving.
C35_GetIsARead ==
  [][\A h \in Handlers :
       (/\ req[h].kind = "get" /\ pc[h] = "update" /\ pc'[h] = "done"
        /\ req[h].session_id \in DOMAIN sessions)
         => LET old == sessions[req[h].session_id]
                new == sessions'[req[h].session_id]
            IN /\ new.metadata.verified = old.metadata.verified
               /\ new.verification_attempts = old.verification_attempts
               /\ new.verification_code = old.verification_code
               /\ new.last_sms_at = old.last_sms_at
               /\ new.last_voice_call_at = old.last_voice_call_at]_vars

\* The guard a request meets: the SMS or the voice delay for a send, the
\* attempt limit for a check.
GuardOf(r) ==
  IF r.kind = "check" THEN "check" ELSE IF r.transport = 0 THEN "sms" ELSE "voice"

\* C36: when a send or a check is refused as RATE_LIMITED with may_retry and
\* retry_after_seconds = r, the same request arriving r seconds later, with
\* no other request on the session in between and the session not yet
\* expired, is not refused as RATE_LIMITED.
C36_RetryDelayHonoured ==
  [][\A h \in Handlers :
       (/\ pc[h] = "body" /\ pc'[h] = "done"
        /\ resp'[h].tag = "error" /\ resp'[h].error_type = "RATE_LIMITED"
        /\ resp'[h].may_retry
        /\ req[h].session_id \in DOMAIN sessions'
        /\ ~is_expired(sessions'[req[h].session_id], now + resp'[h].retry_after_seconds))
         => NotRateLimited(sessions'[req[h].session_id], GuardOf(req[h]),
                           now + resp'[h].retry_after_seconds)]_vars

\* C37: update_session on an id that is not in the store returns false and
\* inserts nothing, and an id the store gave out and no longer holds is
\* never in the store again, whatever calls follow.
C37_NoResurrection ==
  [][/\ (last_call' # last_call /\ last_call'.op = "update"
           /\ last_call'.id \notin DOMAIN sessions)
          => (~last_call'.ok /\ sessions' = sessions)
     /\ \A id \in DOMAIN sessions' \ DOMAIN sessions :
          id = next_id /\ last_call'.op = "create"]_vars

C37_Witness ==
  /\ last_call.op = "update"
  /\ ~last_call.ok
  /\ last_call.id = local[1].metadata.session_id
  /\ last_call.id \in RegistryIds
  /\ last_call.id < next_id
  /\ last_call.before = sessions
  /\ last_call.id \notin DOMAIN sessions
  /\ DOMAIN sessions # {}

\* C38: cleanup_expired removes exactly the sessions that are expired at the
\* moment of the sweep (created_at is later than the clock, or the seconds
\* elapsed since created_at are at least expiration_seconds) and leaves
\* every other session in the store with all of its fields unchanged.
C38_SweepIsExact ==
  [][(last_call' # last_call /\ last_call'.op = "cleanup") =>
       /\ DOMAIN sessions' =
            {id \in DOMAIN sessions :
               /\ sessions[id].created_at <= now
               /\ now - sessions[id].created_at < sessions[id].metadata.expiration_seconds}
       /\ \A id \in DOMAIN sessions' : sessions'[id] = sessions[id]]_vars

C38_Witness ==
  /\ last_call.op = "cleanup"
  /\ DOMAIN last_call.before = {1, 2}
  /\ DOMAIN sessions = {2}
  /\ sessions[2] = last_call.before[2]
  /\ sessions[2].verification_attempts >= 1
  /\ last_call.at = now
  /\ now - last_call.before[1].created_at >= session_timeout

\* Task t holds one of the locks.
Holds(t) == held.writer = t \/ t \in held.readers \/ held.mutex = t

\* C39: no task waits for a lock or at a suspension point while it holds the
\* session-map lock or the rate limiter's mutex, no task holds two locks, and
\* every request a task has started is answered.
C39_DeadlockFree ==
  /\ [](\A t \in Tasks :
          /\ Holds(t) => task[t].at \in {"sweep", "get", "update", "insert", "limit"}
          /\ ~((held.writer = t \/ t \in held.readers) /\ held.mutex = t))
  /\ \A t \in Tasks : (task[t].at # "idle") ~> (task[t].at = "done")

C39_Witness ==
  /\ held.writer = 1
  /\ task[1].at = "update"
  /\ task[2].at = "get_wait"
  /\ task[3].at = "update_wait"

\* The bind DN of the service account (LdapConfig.bind_dn)
ServiceBindDn == "service"

\* The bind identity of the connection get_connection hands out: the last
\* connection of the pool, or a new connection, which is not bound.
SearchConnection == IF pool = <<>> THEN "none" ELSE pool[Len(pool)]

\* C40: every search of find_user runs on a connection that is bound as the
\* service account, never on one that is unbound or bound as an end user.
C40_SearchBoundAsService ==
  [][last_validate'.connected => SearchConnection = ServiceBindDn]_vars
====
